---- MODULE Spec2Model ----
(***************************************************************************)
(* Model of daily_bot.py: fetch_news, the round-robin, de-duplicating,     *)
(* capped selection of articles from the RSS feeds of one topic.           *)
(*                                                                         *)
(* A feed URL is a number; the title of the feed polled at URL u (the      *)
(* source_name of its entries) is u.  A link is a number; NoLink stands    *)
(* for an entry without a link (None or the empty string, both falsy).     *)
(* An entry is the pair (entry, source_name) of line 79, kept here as the  *)
(* record [link, source].  Python indexes lists from 0, the model from 1.  *)
(*                                                                         *)
(* Around it: main, which runs fetch_news and generate_summary for every   *)
(* topic of TOPICS and writes daily_data.json, and app.py's load_data,     *)
(* which reads that file while main may be writing it, and the source     *)
(* list the dashboard renders from what load_data returned.  A text is the *)
(* record [of, len]: the first len characters of the page at link `of`.    *)
(***************************************************************************)
EXTENDS Integers, Sequences, FiniteSets, TLC

\* ---- bounds of the inputs ------------------------------------------------
MaxFeeds == 2
MaxTotal == 3
NumLinks == 2
MaxRun == 3
NumTopics == 2

\* ---- program constants ---------------------------------------------------
NoLink == 0
max_per_round == 1
MaxText == 2000
MaxArticles == 5

VARIABLES
  rss_urls,      \* argument: the declared list of feed URLs
  feed,          \* environment: URL -> outcome of feedparser.parse(URL)
  ok,            \* environment: links whose download()/parse() succeeds
  page,          \* environment: link -> length of the text extracted there
  max_articles,  \* argument
  pc,            \* position in fetch_news
  url_idx,       \* position of the polling loop in rss_urls
  feed_entries,  \* list of per-feed queues of entries (the rotation)
  selected,      \* list of accepted articles
  seen_links,    \* the dedup set
  exhausted,     \* rotation indices found empty in the current round
  feed_idx,      \* position of the for loop in feed_entries
  taken,         \* articles accepted in the current slot
  cur,           \* the entry popped at line 100, while it is extracted
  result,        \* the returned list
  rounds,        \* history: per round, the sources in rotation at its start
  round_base,    \* history: len(selected) at the start of the current round
  log,           \* history: polls, rounds, slot visits, skips, failures,
                 \* acceptances
  mpc,           \* position in main
  topic_idx,     \* position of main's loop in TOPICS
  articles,      \* main: the list fetch_news returned for the topic
  summary,       \* main: what generate_summary returned for the topic
  daily_data,    \* main: the dict being assembled, as its list of items
  file,          \* daily_data.json on disk
  file0,         \* history: daily_data.json when main started
  opens,         \* history: how often main opened the file for writing
  calls,         \* history: the topics the chat service was called for
  polled,        \* history: (topic, URL) of every poll of the run
  fetched,       \* history: the list fetch_news returned, topic by topic
  tried,         \* history: (topic, link) of every extraction of the run
  rpc,           \* position of the dashboard in load_data
  loaded,        \* what the latest call of load_data returned or raised
  cache,         \* the value st.cache_data holds for load_data
  shown          \* the source list the dashboard has rendered

outer == <<mpc, topic_idx, articles, summary, daily_data, file, file0, opens,
           calls, polled, fetched, tried, rpc, loaded, cache, shown>>

vars == <<rss_urls, feed, ok, page, max_articles, pc, url_idx, feed_entries,
          selected, seen_links, exhausted, feed_idx, taken, cur, result, rounds,
          round_base, log, outer>>

inputs == <<rss_urls, feed, ok, page, max_articles>>

\* ---- sequences -----------------------------------------------------------
Links == NoLink .. NumLinks

Take(s, n) == SubSeq(s, 1, IF n < Len(s) THEN n ELSE Len(s))

PopAt(s, i) == SubSeq(s, 1, i - 1) \o SubSeq(s, i + 1, Len(s))

Reverse(s) == [i \in 1..Len(s) |-> s[Len(s) + 1 - i]]

RECURSIVE SumLen(_, _)
SumLen(f, n) == IF n = 0 THEN 0 ELSE Len(f[n].links) + SumLen(f, n - 1)

Range(s) == {s[i] : i \in 1..Len(s)}

LinksOf(arts) == [i \in 1..Len(arts) |-> arts[i].link]

\* ---- the environment -----------------------------------------------------
\* feed.entries of URL u paired with the feed's title (line 79)
Entries(f, u) == [i \in 1..Len(f[u].links) |-> [link |-> f[u].links[i], source |-> u]]

NoEntry == [link |-> NoLink, source |-> 0]

\* the entries of a topic: feed u delivers sizes[u] links, taken in order from
\* the sequence flat, and a feed of `failing` raises instead
RECURSIVE Offset(_, _)
Offset(sizes, u) == IF u = 1 THEN 0 ELSE Offset(sizes, u - 1) + sizes[u - 1]

Polled(sizes, failing, flat) ==
  [u \in DOMAIN sizes |->
     IF u \in failing THEN [raises |-> TRUE, links |-> <<>>]
     ELSE [raises |-> FALSE,
           links |-> SubSeq(flat, Offset(sizes, u) + 1, Offset(sizes, u) + sizes[u])]]

TotalLinks(f) == SumLen(f, Len(f))

\* ---- texts ---------------------------------------------------------------
\* the empty string
NoText == [of |-> NoLink, len |-> 0]

\* art.text after art.parse() of the page at link l
PageText(pg, l) == IF pg[l] = 0 THEN NoText ELSE [of |-> l, len |-> pg[l]]

\* t[:n]
Slice(t, n) == IF t.len <= n THEN t ELSE [of |-> t.of, len |-> n]

\* the links a run can meet, and lengths on both sides of MaxText
LinkSpace ==
  IF NumLinks > (MaxFeeds + 1) * MaxRun THEN NumLinks ELSE (MaxFeeds + 1) * MaxRun

TextLens == <<MaxText + 1, 0, MaxText, 1, 2 * MaxText, MaxText - 1>>

\* the page of link l has the (l mod 6)-th of these lengths
SomePage == [l \in 1..LinkSpace |-> TextLens[(l % Len(TextLens)) + 1]]

\* title and published of an entry are strings the feed chose
EntryTitle(e) == <<"title", e.source, e.link>>

EntryPublished(e) == <<"published", e.source, e.link>>

\* line 112 keeping the whole text
ArticleText_Whole(t) == t

\* line 112: art.text[:2000] if art.text else ""
ArticleText(t) == IF t # NoText THEN Slice(t, MaxText) ELSE NoText

\* lines 109-115: the dict appended for entry e
MakeArticle(e, pg) ==
  [title |-> EntryTitle(e), link |-> e.link,
   text |-> ArticleText(PageText(pg, e.link)),
   published |-> EntryPublished(e), source |-> e.source]

\* Every small topic: up to MaxFeeds feeds holding up to MaxTotal entries in
\* all, any link missing or repeated, any extraction outcome.  A cap above
\* the number of entries behaves as one just above it.
InitAny ==
  \E n \in 0..MaxFeeds :
    \E sizes \in {z \in [1..n -> 0..MaxTotal] : Offset(z, n + 1) <= MaxTotal} :
      \E failing \in SUBSET {u \in 1..n : sizes[u] = 0} :
        \E flat \in [1..Offset(sizes, n + 1) -> Links] :
          /\ rss_urls = [u \in 1..n |-> u]
          /\ feed = Polled(sizes, failing, flat)
          /\ ok \in SUBSET (1..NumLinks)
          /\ page = SomePage
          /\ max_articles \in 0..(TotalLinks(feed) + 1)

\* Larger topics whose links are all distinct and all extractable: one more
\* feed, up to MaxRun entries each, a feed without entries failing or empty.
InitDistinct ==
  \E n \in 1..(MaxFeeds + 1) :
    \E sizes \in [1..n -> 0..MaxRun] :
      \E failing \in SUBSET {u \in 1..n : sizes[u] = 0} :
        /\ rss_urls = [u \in 1..n |-> u]
        /\ feed = Polled(sizes, failing, [i \in 1..Offset(sizes, n + 1) |-> i])
        /\ ok = 1..TotalLinks(feed)
        /\ page = SomePage
        /\ max_articles \in 0..(TotalLinks(feed) + 1)

\* One feed of up to NumLinks distinct extractable links, the text of each
\* page of any of the lengths.
InitText ==
  \E n \in 1..NumLinks :
    \E t \in [1..n -> Range(TextLens)] :
      /\ rss_urls = <<1>>
      /\ feed = Polled(<<n>>, {}, [i \in 1..n |-> i])
      /\ ok = 1..n
      /\ page = [l \in 1..LinkSpace |-> IF l <= n THEN t[l] ELSE 0]
      /\ max_articles \in 0..(n + 1)

\* fetch_news not called
FetchIdle ==
  /\ rss_urls = <<>>
  /\ feed = <<>>
  /\ ok = {}
  /\ page = SomePage
  /\ max_articles = 0
  /\ pc = "idle"

\* daily_data.json does not exist
Missing == [exists |-> FALSE, items |-> <<>>, complete |-> FALSE, midchar |-> FALSE]

\* load_data not called yet: status, data returned, what the read met, whether
\* the call began after main's write ended, whether the cache answered
NotLoaded ==
  [status |-> "none", data |-> <<>>, saw |-> "nothing", late |-> FALSE, hit |-> FALSE]

\* nothing cached
NoCache == [full |-> FALSE, data |-> <<>>]

\* no source list rendered
NoShown == [topic |-> "", rows |-> <<>>]

\* main and the dashboard not running
OuterIdle ==
  /\ mpc = "off"
  /\ topic_idx = 0
  /\ articles = <<>>
  /\ summary = ""
  /\ daily_data = <<>>
  /\ file = Missing
  /\ file0 = file
  /\ opens = 0
  /\ calls = <<>>
  /\ polled = <<>>
  /\ fetched = <<>>
  /\ tried = <<>>
  /\ rpc = "off"
  /\ loaded = NotLoaded
  /\ cache = NoCache
  /\ shown = NoShown

\* lines 73 and 89-91: the locals of a call of fetch_news
Locals ==
  /\ url_idx = 1
  /\ feed_entries = <<>>
  /\ selected = <<>>
  /\ seen_links = {}
  /\ exhausted = <<>>
  /\ feed_idx = 1
  /\ taken = 0
  /\ cur = NoEntry
  /\ result = <<>>
  /\ rounds = <<>>
  /\ round_base = 0
  /\ log = <<>>

Init ==
  /\ InitAny \/ InitDistinct \/ InitText
  /\ OuterIdle
  /\ pc = "poll"
  /\ Locals

\* ---- step 1: poll every feed (lines 74-87) --------------------------------
\* PollRaise letting the exception end fetch_news with nothing
PollRaise_Abort ==
  /\ pc = "poll"
  /\ url_idx <= Len(rss_urls)
  /\ feed[rss_urls[url_idx]].raises
  /\ pc' = "done"
  /\ UNCHANGED <<inputs, outer, url_idx, feed_entries, selected, seen_links, exhausted,
                 feed_idx, taken, cur, result, rounds, round_base, log>>

\* PollRaise polling the same URL again
PollRaise_Retry ==
  /\ pc = "poll"
  /\ url_idx <= Len(rss_urls)
  /\ feed[rss_urls[url_idx]].raises
  /\ url_idx' = url_idx
  /\ log' = Append(log, [ev |-> "poll", src |-> rss_urls[url_idx], link |-> NoLink])
  /\ UNCHANGED <<inputs, outer, pc, feed_entries, selected, seen_links, exhausted,
                 feed_idx, taken, cur, result, rounds, round_base>>

\* feedparser.parse raises: the except clause logs and continues.
PollRaise ==
  /\ pc = "poll"
  /\ url_idx <= Len(rss_urls)
  /\ feed[rss_urls[url_idx]].raises
  /\ url_idx' = url_idx + 1
  /\ log' = Append(log, [ev |-> "poll", src |-> rss_urls[url_idx], link |-> NoLink])
  /\ UNCHANGED <<inputs, outer, pc, feed_entries, selected, seen_links, exhausted,
                 feed_idx, taken, cur, result, rounds, round_base>>

\* PollEntries putting the new queue first
PollEntries_Prepend ==
  /\ pc = "poll"
  /\ url_idx <= Len(rss_urls)
  /\ ~feed[rss_urls[url_idx]].raises
  /\ Entries(feed, rss_urls[url_idx]) # <<>>
  /\ feed_entries' = <<Entries(feed, rss_urls[url_idx])>> \o feed_entries
  /\ url_idx' = url_idx + 1
  /\ log' = Append(log, [ev |-> "poll", src |-> rss_urls[url_idx], link |-> NoLink])
  /\ UNCHANGED <<inputs, outer, pc, selected, seen_links, exhausted, feed_idx, taken,
                 cur, result, rounds, round_base>>

\* the feed has entries: its queue joins the rotation
PollEntries ==
  /\ pc = "poll"
  /\ url_idx <= Len(rss_urls)
  /\ ~feed[rss_urls[url_idx]].raises
  /\ Entries(feed, rss_urls[url_idx]) # <<>>
  /\ feed_entries' = Append(feed_entries, Entries(feed, rss_urls[url_idx]))
  /\ url_idx' = url_idx + 1
  /\ log' = Append(log, [ev |-> "poll", src |-> rss_urls[url_idx], link |-> NoLink])
  /\ UNCHANGED <<inputs, outer, pc, selected, seen_links, exhausted, feed_idx, taken,
                 cur, result, rounds, round_base>>

\* the feed has no entry: `if entries` is false
PollEmpty ==
  /\ pc = "poll"
  /\ url_idx <= Len(rss_urls)
  /\ ~feed[rss_urls[url_idx]].raises
  /\ Entries(feed, rss_urls[url_idx]) = <<>>
  /\ url_idx' = url_idx + 1
  /\ log' = Append(log, [ev |-> "poll", src |-> rss_urls[url_idx], link |-> NoLink])
  /\ UNCHANGED <<inputs, outer, pc, feed_entries, selected, seen_links, exhausted,
                 feed_idx, taken, cur, result, rounds, round_base>>

\* PollDone without lines 89-90: selected and seen_links outlive the call
PollDone_KeepLocals ==
  /\ pc = "poll"
  /\ url_idx > Len(rss_urls)
  /\ IF feed_entries = <<>>
       THEN /\ result' = <<>>
            /\ pc' = "done"
       ELSE /\ result' = result
            /\ pc' = "while"
  /\ UNCHANGED <<inputs, outer, url_idx, feed_entries, selected, seen_links,
                 exhausted, feed_idx, taken, cur, rounds, round_base, log>>

\* end of the polling loop: return [] at once if no feed has entries
PollDone ==
  /\ pc = "poll"
  /\ url_idx > Len(rss_urls)
  /\ IF feed_entries = <<>>
       THEN /\ result' = <<>>
            /\ pc' = "done"
       ELSE /\ result' = result
            /\ pc' = "while"
  /\ selected' = <<>>
  /\ seen_links' = {}
  /\ UNCHANGED <<inputs, outer, url_idx, feed_entries, exhausted, feed_idx, taken,
                 cur, rounds, round_base, log>>

\* ---- step 2: the round-robin (lines 89-126) -------------------------------
\* sources of the queues in rotation (a queue in rotation is never empty at
\* the start of a round)
Sources(fe) == {fe[i][1].source : i \in {j \in 1..Len(fe) : fe[j] # <<>>}}

\* line 93, condition true: a round starts
WhileEnter ==
  /\ pc = "while"
  /\ Len(selected) < max_articles /\ feed_entries # <<>>
  /\ exhausted' = <<>>
  /\ feed_idx' = 1
  /\ pc' = "for"
  /\ rounds' = Append(rounds, Sources(feed_entries))
  /\ round_base' = Len(selected)
  /\ log' = Append(log, [ev |-> "round", src |-> 0, link |-> NoLink])
  /\ UNCHANGED <<inputs, outer, url_idx, feed_entries, selected, seen_links, taken,
                 cur, result>>

\* line 93, condition false: the loop ends
WhileExit ==
  /\ pc = "while"
  /\ ~(Len(selected) < max_articles /\ feed_entries # <<>>)
  /\ pc' = "return"
  /\ UNCHANGED <<inputs, outer, url_idx, feed_entries, selected, seen_links,
                 exhausted, feed_idx, taken, cur, result, rounds, round_base, log>>

\* ForVisit without the test of lines 96-97
ForVisit_NoCapTest ==
  /\ pc = "for"
  /\ feed_idx <= Len(feed_entries)
  /\ taken' = 0
  /\ pc' = "inner"
  /\ log' = Append(log, [ev |-> "visit", src |-> feed_entries[feed_idx][1].source, link |-> NoLink])
  /\ UNCHANGED <<inputs, outer, url_idx, feed_entries, selected, seen_links,
                 exhausted, feed_idx, cur, result, rounds, round_base>>

\* lines 95-98: the for loop visits the next feed of the rotation
ForVisit ==
  /\ pc = "for"
  /\ feed_idx <= Len(feed_entries)
  /\ ~(Len(selected) >= max_articles)
  /\ taken' = 0
  /\ pc' = "inner"
  /\ log' = Append(log, [ev |-> "visit", src |-> feed_entries[feed_idx][1].source, link |-> NoLink])
  /\ UNCHANGED <<inputs, outer, url_idx, feed_entries, selected, seen_links,
                 exhausted, feed_idx, cur, result, rounds, round_base>>

\* lines 96-97: the cap is reached, break out of the for loop
ForBreak ==
  /\ pc = "for"
  /\ feed_idx <= Len(feed_entries)
  /\ Len(selected) >= max_articles
  /\ pc' = "remove"
  /\ UNCHANGED <<inputs, outer, url_idx, feed_entries, selected, seen_links,
                 exhausted, feed_idx, taken, cur, result, rounds, round_base, log>>

\* the for loop has visited every feed of the rotation
ForEnd ==
  /\ pc = "for"
  /\ feed_idx > Len(feed_entries)
  /\ pc' = "remove"
  /\ UNCHANGED <<inputs, outer, url_idx, feed_entries, selected, seen_links,
                 exhausted, feed_idx, taken, cur, result, rounds, round_base, log>>

\* SlotOpen allowing two articles per slot
SlotOpen_Two == feed_entries[feed_idx] # <<>> /\ taken < max_per_round + 1

\* line 99: the slot goes on while the queue has entries and nothing is taken
SlotOpen == feed_entries[feed_idx] # <<>> /\ taken < max_per_round

\* lines 100-103: pop an entry without link or with a link already seen
PopSkip ==
  /\ pc = "inner"
  /\ SlotOpen
  /\ LET e == Head(feed_entries[feed_idx]) IN
       /\ e.link = NoLink \/ e.link \in seen_links
       /\ log' = Append(log, [ev |-> "skip", src |-> e.source, link |-> e.link])
  /\ feed_entries' = [feed_entries EXCEPT ![feed_idx] = Tail(@)]
  /\ UNCHANGED <<inputs, outer, pc, url_idx, selected, seen_links, exhausted,
                 feed_idx, taken, cur, result, rounds, round_base>>

\* PopNew without the membership test of line 102
PopNew_NoDedup ==
  /\ pc = "inner"
  /\ SlotOpen
  /\ LET e == Head(feed_entries[feed_idx]) IN
       /\ e.link # NoLink
       /\ seen_links' = seen_links \cup {e.link}
       /\ cur' = e
  /\ feed_entries' = [feed_entries EXCEPT ![feed_idx] = Tail(@)]
  /\ pc' = "extract"
  /\ UNCHANGED <<inputs, outer, url_idx, selected, exhausted, feed_idx, taken,
                 result, rounds, round_base, log>>

\* PopNew testing the link against the articles selected, not against seen_links
PopNew_SelectedOnly ==
  /\ pc = "inner"
  /\ SlotOpen
  /\ LET e == Head(feed_entries[feed_idx]) IN
       /\ ~(e.link = NoLink \/ e.link \in Range(LinksOf(selected)))
       /\ seen_links' = seen_links \cup {e.link}
       /\ cur' = e
  /\ feed_entries' = [feed_entries EXCEPT ![feed_idx] = Tail(@)]
  /\ pc' = "extract"
  /\ UNCHANGED <<inputs, outer, url_idx, selected, exhausted, feed_idx, taken,
                 result, rounds, round_base, log>>

\* lines 100-104: pop an entry with a new link and record the link
PopNew ==
  /\ pc = "inner"
  /\ SlotOpen
  /\ LET e == Head(feed_entries[feed_idx]) IN
       /\ ~(e.link = NoLink \/ e.link \in seen_links)
       /\ seen_links' = seen_links \cup {e.link}
       /\ cur' = e
  /\ feed_entries' = [feed_entries EXCEPT ![feed_idx] = Tail(@)]
  /\ pc' = "extract"
  /\ UNCHANGED <<inputs, outer, url_idx, selected, exhausted, feed_idx, taken,
                 result, rounds, round_base, log>>

\* ExtractOk without line 116
ExtractOk_NoTaken ==
  /\ pc = "extract"
  /\ cur.link \in ok
  /\ selected' = Append(selected, MakeArticle(cur, page))
  /\ pc' = "inner"
  /\ log' = Append(log, [ev |-> "accept", src |-> cur.source, link |-> cur.link])
  /\ UNCHANGED <<inputs, outer, url_idx, feed_entries, seen_links, exhausted,
                 feed_idx, taken, cur, result, rounds, round_base>>

\* lines 105-116: download and parse succeed, the article is appended
ExtractOk ==
  /\ pc = "extract"
  /\ cur.link \in ok
  /\ selected' = Append(selected, MakeArticle(cur, page))
  /\ taken' = taken + 1
  /\ pc' = "inner"
  /\ log' = Append(log, [ev |-> "accept", src |-> cur.source, link |-> cur.link])
  /\ UNCHANGED <<inputs, outer, url_idx, feed_entries, seen_links, exhausted,
                 feed_idx, cur, result, rounds, round_base>>

\* ExtractFail counting the failed entry as taken
ExtractFail_CostsTurn ==
  /\ pc = "extract"
  /\ cur.link \notin ok
  /\ taken' = taken + 1
  /\ pc' = "inner"
  /\ log' = Append(log, [ev |-> "fail", src |-> cur.source, link |-> cur.link])
  /\ UNCHANGED <<inputs, outer, url_idx, feed_entries, selected, seen_links,
                 exhausted, feed_idx, cur, result, rounds, round_base>>

\* ExtractFail taking the link out of the dedup set again
ExtractFail_Forget ==
  /\ pc = "extract"
  /\ cur.link \notin ok
  /\ seen_links' = seen_links \ {cur.link}
  /\ pc' = "inner"
  /\ log' = Append(log, [ev |-> "fail", src |-> cur.source, link |-> cur.link])
  /\ UNCHANGED <<inputs, outer, url_idx, feed_entries, selected, exhausted, feed_idx,
                 taken, cur, result, rounds, round_base>>

\* lines 117-119: download or parse raises, the entry is dropped
ExtractFail ==
  /\ pc = "extract"
  /\ cur.link \notin ok
  /\ pc' = "inner"
  /\ log' = Append(log, [ev |-> "fail", src |-> cur.source, link |-> cur.link])
  /\ UNCHANGED <<inputs, outer, url_idx, feed_entries, selected, seen_links,
                 exhausted, feed_idx, taken, cur, result, rounds, round_base>>

\* SlotEnd marking the feed exhausted whatever its queue holds
SlotEnd_AlwaysExhausted ==
  /\ pc = "inner"
  /\ ~SlotOpen
  /\ exhausted' = Append(exhausted, feed_idx)
  /\ feed_idx' = feed_idx + 1
  /\ pc' = "for"
  /\ UNCHANGED <<inputs, outer, url_idx, feed_entries, selected, seen_links, taken,
                 cur, result, rounds, round_base, log>>

\* lines 99, 120-121: the slot ends; an empty queue is marked exhausted
SlotEnd ==
  /\ pc = "inner"
  /\ ~SlotOpen
  /\ exhausted' = IF feed_entries[feed_idx] = <<>>
                    THEN Append(exhausted, feed_idx)
                    ELSE exhausted
  /\ feed_idx' = feed_idx + 1
  /\ pc' = "for"
  /\ UNCHANGED <<inputs, outer, url_idx, feed_entries, selected, seen_links, taken,
                 cur, result, rounds, round_base, log>>

\* lines 123-124: pop the exhausted indices, highest first
RECURSIVE PopAll(_, _)
PopAll(fe, idxs) ==
  IF idxs = <<>> THEN fe ELSE PopAll(PopAt(fe, Head(idxs)), Tail(idxs))

\* RemoveExhausted leaving the rotation as it is
RemoveExhausted_Keep ==
  /\ pc = "remove"
  /\ pc' = "while"
  /\ UNCHANGED <<inputs, outer, url_idx, feed_entries, selected, seen_links, exhausted,
                 feed_idx, taken, cur, result, rounds, round_base, log>>

RemoveExhausted ==
  /\ pc = "remove"
  /\ feed_entries' = PopAll(feed_entries, Reverse(exhausted))
  /\ pc' = "while"
  /\ UNCHANGED <<inputs, outer, url_idx, selected, seen_links, exhausted, feed_idx,
                 taken, cur, result, rounds, round_base, log>>

\* Return giving the articles in an order of its choice
Return_AnyOrder ==
  /\ pc = "return"
  /\ \E p \in Permutations(1..Len(Take(selected, max_articles))) :
       result' = [i \in 1..Len(Take(selected, max_articles)) |->
                    Take(selected, max_articles)[p[i]]]
  /\ pc' = "done"
  /\ UNCHANGED <<inputs, outer, url_idx, feed_entries, selected, seen_links,
                 exhausted, feed_idx, taken, cur, rounds, round_base, log>>

\* line 126
Return ==
  /\ pc = "return"
  /\ result' = Take(selected, max_articles)
  /\ pc' = "done"
  /\ UNCHANGED <<inputs, outer, url_idx, feed_entries, selected, seen_links,
                 exhausted, feed_idx, taken, cur, rounds, round_base, log>>

\* ---- fetch_news as a function of its arguments and environment -----------
\* lines 74-84
RECURSIVE PollAll(_, _)
PollAll(urls, f) ==
  IF urls = <<>> THEN <<>>
  ELSE (IF ~f[Head(urls)].raises /\ Entries(f, Head(urls)) # <<>>
          THEN <<Entries(f, Head(urls))>>
          ELSE <<>>) \o PollAll(Tail(urls), f)

\* lines 98-121: one slot, on s = [fe, sel, seen, exh], for the queue at i
RECURSIVE Slot(_, _, _, _, _)
Slot(s, i, tk, okset, pg) ==
  IF s.fe[i] # <<>> /\ tk < max_per_round
    THEN LET e == Head(s.fe[i])
             s1 == [s EXCEPT !.fe[i] = Tail(@)]
             s2 == [s1 EXCEPT !.seen = @ \cup {e.link}]
         IN IF e.link = NoLink \/ e.link \in s.seen THEN Slot(s1, i, tk, okset, pg)
            ELSE IF e.link \in okset
              THEN Slot([s2 EXCEPT !.sel = Append(@, MakeArticle(e, pg))], i, tk + 1,
                        okset, pg)
              ELSE Slot(s2, i, tk, okset, pg)
    ELSE IF s.fe[i] = <<>> THEN [s EXCEPT !.exh = Append(@, i)] ELSE s

\* lines 95-121
RECURSIVE ForLoop(_, _, _, _, _)
ForLoop(s, i, okset, pg, max) ==
  IF i > Len(s.fe) \/ Len(s.sel) >= max THEN s
  ELSE ForLoop(Slot(s, i, 0, okset, pg), i + 1, okset, pg, max)

\* lines 93-124
RECURSIVE WhileLoop(_, _, _, _)
WhileLoop(s, okset, pg, max) ==
  IF Len(s.sel) < max /\ s.fe # <<>>
    THEN LET r == ForLoop([s EXCEPT !.exh = <<>>], 1, okset, pg, max)
         IN WhileLoop([r EXCEPT !.fe = PopAll(r.fe, Reverse(r.exh))], okset, pg,
                      max)
    ELSE s

\* lines 71-126
fetch_news(urls, f, okset, pg, max) ==
  IF PollAll(urls, f) = <<>> THEN <<>>
  ELSE Take(WhileLoop([fe |-> PollAll(urls, f), sel |-> <<>>, seen |-> {},
                       exh |-> <<>>], okset, pg, max).sel, max)

Next ==
  \/ PollRaise
  \/ PollEntries
  \/ PollEmpty
  \/ PollDone
  \/ WhileEnter
  \/ WhileExit
  \/ ForVisit
  \/ ForBreak
  \/ ForEnd
  \/ PopSkip
  \/ PopNew
  \/ ExtractOk
  \/ ExtractFail
  \/ SlotEnd
  \/ RemoveExhausted
  \/ Return

Spec == Init /\ [][Next]_vars

\* fetch_news is sequential code: a step that can be taken is taken
FairSpec == Spec /\ WF_vars(Next)

\* fetch_news called on the feeds whose links repeat or are missing
LinkInit ==
  /\ InitAny
  /\ OuterIdle
  /\ pc = "poll"
  /\ Locals

LinkSpec == LinkInit /\ [][Next]_vars

\* ---- main, generate_summary and the dashboard's load_data ------------------
\* The names of the seven topics, lines 24-61.
Names == <<"Tech", "AI", "Finance", "World News", "Business", "Stock Market",
           "Crypto">>

\* TOPICS cut down to its first NumTopics topics of two endpoints each.  Some
\* endpoints are listed under two topics (lines 41 and 52, 38 and 58, 39 and
\* 57): here topic t and topic t + 1 share endpoint t + 1.
TOPICS == [t \in 1..NumTopics |-> [name |-> Names[t], urls |-> <<t, t + 1>>]]

TopicNames == {TOPICS[t].name : t \in 1..Len(TOPICS)}

\* lines 133-134 and 190: the two fixed sentences
NoArticlesSummary == "No articles were available to summarize for this topic."

FailedSummary == "Summary generation failed due to an API error."

\* what the chat service may answer
Replies == {"a digest"}

\* ---- dicts, as the list of their items in insertion order -------------------
HasKey(d, k) == \E i \in 1..Len(d) : d[i][1] = k

\* d[k] = v
DictSet(d, k, v) ==
  IF HasKey(d, k) THEN [i \in 1..Len(d) |-> IF d[i][1] = k THEN <<k, v>> ELSE d[i]]
  ELSE Append(d, <<k, v>>)

Keys(d) == [i \in 1..Len(d) |-> d[i][1]]

Get(d, k) == d[CHOOSE i \in 1..Len(d) : d[i][1] = k][2]

\* ---- JSON ------------------------------------------------------------------
\* A JSON object is the list of its (key, value) members as written.  json.dump
\* writes the members of a dict in insertion order; json.load builds the dict
\* member by member, a later member of the same key replacing the earlier.
ArticleKeys == <<"title", "link", "published", "source", "text">>

\* ArticleOut leaving the text out
ArticleOut_NoText(art) ==
  [title |-> art.title, link |-> art.link, published |-> art.published,
   source |-> art.source, text |-> NoText]

\* lines 217-226: the dict main builds from an article of fetch_news
ArticleOut(art) ==
  [title |-> art.title, link |-> art.link, published |-> art.published,
   source |-> art.source, text |-> art.text]

DumpArticle(a) == [i \in 1..Len(ArticleKeys) |-> <<ArticleKeys[i], a[ArticleKeys[i]]>>]

DumpValue(v) ==
  IF "summary" \in DOMAIN v
    THEN << <<"summary", v.summary>>,
            <<"articles", [i \in 1..Len(v.articles) |-> DumpArticle(v.articles[i])]>> >>
    ELSE << <<"generated_at", v.generated_at>> >>

\* json.dump(daily_data): the members of the top-level object
Dump(d) == [i \in 1..Len(d) |-> <<d[i][1], DumpValue(d[i][2])>>]

LoadObject(ms) ==
  [k \in {ms[i][1] : i \in 1..Len(ms)} |->
     ms[CHOOSE i \in 1..Len(ms) :
          ms[i][1] = k /\ \A j \in (i + 1)..Len(ms) : ms[j][1] # k][2]]

LoadValue(ms) ==
  IF \E i \in 1..Len(ms) : ms[i][1] = "articles"
    THEN LET o == LoadObject(ms)
         IN [o EXCEPT !.articles = [i \in 1..Len(@) |-> LoadObject(@[i])]]
    ELSE LoadObject(ms)

\* json.load of a complete document
RECURSIVE Load(_)
Load(ms) ==
  IF ms = <<>> THEN <<>>
  ELSE DictSet(Load(SubSeq(ms, 1, Len(ms) - 1)), ms[Len(ms)][1],
               LoadValue(ms[Len(ms)][2]))

\* ---- the file ---------------------------------------------------------------
\* complete: the whole document, to its closing brace, is on disk, and
\* items are the members of its top-level object.  While only a part of the
\* document is on disk its members are not kept: no proper prefix of a JSON
\* object parses.  midchar: the last byte on disk is inside a multi-byte
\* character (ensure_ascii=False writes text as UTF-8).
Stored(d) == [exists |-> TRUE, items |-> Dump(d), complete |-> TRUE, midchar |-> FALSE]

\* the store an earlier run left
PriorStore ==
  << <<"Tech", [summary |-> "an earlier digest", articles |-> <<>>]>>,
     <<"_meta", [generated_at |-> "earlier"]>> >>

\* ---- main --------------------------------------------------------------------
\* The feeds a topic can meet: its first endpoint raises or delivers MaxRun
\* entries; its second raises, delivers no entry, or delivers MaxRun entries,
\* with the links of the first or with links of its own.  Every link extracts,
\* or every link but the first of the second endpoint's own.
Run(a, n) == [i \in 1..n |-> a + i - 1]

Delivers(ls) == [raises |-> FALSE, links |-> ls]

Raises == [raises |-> TRUE, links |-> <<>>]

FirstFeeds == {Raises, Delivers(Run(1, MaxRun))}

SecondFeeds ==
  {Raises, Delivers(<<>>), Delivers(Run(1, MaxRun)), Delivers(Run(MaxRun + 1, MaxRun))}

MainInit ==
  /\ FetchIdle
  /\ Locals
  /\ mpc = "loop"
  /\ topic_idx = 1
  /\ articles = <<>>
  /\ summary = ""
  /\ daily_data = <<>>
  /\ file \in {Missing, Stored(PriorStore)}
  /\ file0 = file
  /\ opens = 0
  /\ calls = <<>>
  /\ polled = <<>>
  /\ fetched = <<>>
  /\ tried = <<>>
  /\ rpc = "idle"
  /\ loaded = NotLoaded
  /\ cache = NoCache
  /\ shown = NoShown

\* lines 201-206 and 73-75: the loop takes the next topic and calls
\* fetch_news, which starts with no queue, at the first URL
CallFetch ==
  /\ mpc = "loop"
  /\ topic_idx <= Len(TOPICS)
  /\ rss_urls' = TOPICS[topic_idx].urls
  /\ \E f1 \in FirstFeeds, f2 \in SecondFeeds :
       feed' = [u \in Range(TOPICS[topic_idx].urls) |->
                  IF u = TOPICS[topic_idx].urls[1] THEN f1 ELSE f2]
  /\ ok' \in {1..(2 * MaxRun), (1..(2 * MaxRun)) \ {MaxRun + 1}}
  /\ page' = SomePage
  /\ max_articles' = MaxArticles
  /\ url_idx' = 1
  /\ feed_entries' = <<>>
  /\ pc' = "poll"
  /\ mpc' = "fetch"
  /\ UNCHANGED <<selected, seen_links, exhausted, feed_idx, taken, cur, result,
                 rounds, round_base, log>>
  /\ UNCHANGED <<topic_idx, articles, summary, daily_data, file, file0, opens,
                 calls, polled, fetched, tried, rpc, loaded, cache, shown>>

EventsOf(lg, evs) == SelectSeq(lg, LAMBDA e : e.ev \in evs)

\* line 206: fetch_news returns.  Its locals are gone; selected and seen_links
\* are left as they are, the next call sets them at lines 89-90.
FetchReturn ==
  /\ mpc = "fetch"
  /\ pc = "done"
  /\ articles' = result
  /\ fetched' = Append(fetched, result)
  /\ polled' = polled \o [i \in 1..Len(EventsOf(log, {"poll"})) |->
                            <<TOPICS[topic_idx].name, EventsOf(log, {"poll"})[i].src>>]
  /\ tried' = tried \o [i \in 1..Len(EventsOf(log, {"accept", "fail"})) |->
                          <<TOPICS[topic_idx].name,
                            EventsOf(log, {"accept", "fail"})[i].link>>]
  /\ mpc' = "summary"
  /\ rss_urls' = <<>>
  /\ feed' = <<>>
  /\ ok' = {}
  /\ max_articles' = 0
  /\ pc' = "idle"
  /\ url_idx' = 1
  /\ feed_entries' = <<>>
  /\ exhausted' = <<>>
  /\ feed_idx' = 1
  /\ taken' = 0
  /\ cur' = NoEntry
  /\ result' = <<>>
  /\ rounds' = <<>>
  /\ round_base' = 0
  /\ log' = <<>>
  /\ UNCHANGED <<page, selected, seen_links>>
  /\ UNCHANGED <<topic_idx, summary, daily_data, file, file0, opens, calls, rpc,
                 loaded, cache, shown>>

\* lines 133-134: no article, the service is not called
SummaryEmpty ==
  /\ mpc = "summary"
  /\ articles = <<>>
  /\ summary' = NoArticlesSummary
  /\ mpc' = "assign"
  /\ UNCHANGED <<inputs, pc, url_idx, feed_entries, selected, seen_links,
                 exhausted, feed_idx, taken, cur, result, rounds, round_base, log>>
  /\ UNCHANGED <<topic_idx, articles, daily_data, file, file0, opens, calls,
                 polled, fetched, tried, rpc, loaded, cache, shown>>

\* lines 172-186: the service answers
SummaryOk ==
  /\ mpc = "summary"
  /\ articles # <<>>
  /\ \E r \in Replies :
       /\ summary' = r
       /\ calls' = Append(calls, [topic |-> TOPICS[topic_idx].name, reply |-> r])
  /\ mpc' = "assign"
  /\ UNCHANGED <<inputs, pc, url_idx, feed_entries, selected, seen_links,
                 exhausted, feed_idx, taken, cur, result, rounds, round_base, log>>
  /\ UNCHANGED <<topic_idx, articles, daily_data, file, file0, opens, polled, fetched,
                 tried, rpc, loaded, cache, shown>>

\* SummaryFail without the except clause: the error ends main
SummaryFail_Raise ==
  /\ mpc = "summary"
  /\ articles # <<>>
  /\ calls' = Append(calls, [topic |-> TOPICS[topic_idx].name, reply |-> "raised"])
  /\ mpc' = "failed"
  /\ UNCHANGED <<inputs, pc, url_idx, feed_entries, selected, seen_links,
                 exhausted, feed_idx, taken, cur, result, rounds, round_base, log>>
  /\ UNCHANGED <<topic_idx, articles, summary, daily_data, file, file0, opens,
                 polled, fetched, tried, rpc, loaded, cache, shown>>

\* lines 188-190: the call raises
SummaryFail ==
  /\ mpc = "summary"
  /\ articles # <<>>
  /\ summary' = FailedSummary
  /\ calls' = Append(calls, [topic |-> TOPICS[topic_idx].name, reply |-> "raised"])
  /\ mpc' = "assign"
  /\ UNCHANGED <<inputs, pc, url_idx, feed_entries, selected, seen_links,
                 exhausted, feed_idx, taken, cur, result, rounds, round_base, log>>
  /\ UNCHANGED <<topic_idx, articles, daily_data, file, file0, opens, polled, fetched,
                 tried, rpc, loaded, cache, shown>>

\* AssignDigest storing a digest only when there are articles
AssignDigest_SkipEmpty ==
  /\ mpc = "assign"
  /\ daily_data' = IF articles = <<>> THEN daily_data
                   ELSE DictSet(daily_data, TOPICS[topic_idx].name,
                                [summary |-> summary,
                                 articles |-> [i \in 1..Len(articles) |->
                                                 ArticleOut(articles[i])]])
  /\ topic_idx' = topic_idx + 1
  /\ mpc' = "loop"
  /\ UNCHANGED <<inputs, pc, url_idx, feed_entries, selected, seen_links,
                 exhausted, feed_idx, taken, cur, result, rounds, round_base, log>>
  /\ UNCHANGED <<articles, summary, file, file0, opens, calls, polled, fetched, tried,
                 rpc, loaded, cache, shown>>

\* lines 215-227
AssignDigest ==
  /\ mpc = "assign"
  /\ daily_data' = DictSet(daily_data, TOPICS[topic_idx].name,
                           [summary |-> summary,
                            articles |-> [i \in 1..Len(articles) |->
                                            ArticleOut(articles[i])]])
  /\ topic_idx' = topic_idx + 1
  /\ mpc' = "loop"
  /\ UNCHANGED <<inputs, pc, url_idx, feed_entries, selected, seen_links,
                 exhausted, feed_idx, taken, cur, result, rounds, round_base, log>>
  /\ UNCHANGED <<articles, summary, file, file0, opens, calls, polled, fetched, tried,
                 rpc, loaded, cache, shown>>

\* lines 230-232, after the last topic
AddMeta ==
  /\ mpc = "loop"
  /\ topic_idx > Len(TOPICS)
  /\ daily_data' = DictSet(daily_data, "_meta", [generated_at |-> "now"])
  /\ mpc' = "open"
  /\ UNCHANGED <<inputs, pc, url_idx, feed_entries, selected, seen_links,
                 exhausted, feed_idx, taken, cur, result, rounds, round_base, log>>
  /\ UNCHANGED <<topic_idx, articles, summary, file, file0, opens, calls,
                 polled, fetched, tried, rpc, loaded, cache, shown>>

\* line 236: open(output_path, "w") creates the file or truncates it
OpenWrite ==
  /\ mpc = "open"
  /\ file' = [exists |-> TRUE, items |-> <<>>, complete |-> FALSE, midchar |-> FALSE]
  /\ opens' = opens + 1
  /\ mpc' = "dump"
  /\ UNCHANGED <<inputs, pc, url_idx, feed_entries, selected, seen_links,
                 exhausted, feed_idx, taken, cur, result, rounds, round_base, log>>
  /\ UNCHANGED <<topic_idx, articles, summary, daily_data, file0, calls, polled, fetched,
                 tried, rpc, loaded, cache, shown>>

\* line 236: open raises (no permission, no directory); main ends with it
OpenFail ==
  /\ mpc = "open"
  /\ mpc' = "failed"
  /\ UNCHANGED <<inputs, pc, url_idx, feed_entries, selected, seen_links,
                 exhausted, feed_idx, taken, cur, result, rounds, round_base, log>>
  /\ UNCHANGED <<topic_idx, articles, summary, daily_data, file, file0, opens,
                 calls, polled, fetched, tried, rpc, loaded, cache, shown>>

\* line 237: json.dump writes through the buffer of f, which reaches the disk
\* a block at a time, wherever the block ends
Flush ==
  /\ mpc = "dump"
  /\ \E m \in BOOLEAN :
       file' = [exists |-> TRUE, items |-> <<>>, complete |-> FALSE, midchar |-> m]
  /\ UNCHANGED <<inputs, pc, url_idx, feed_entries, selected, seen_links,
                 exhausted, feed_idx, taken, cur, result, rounds, round_base, log>>
  /\ UNCHANGED <<mpc, topic_idx, articles, summary, daily_data, file0, opens,
                 calls, polled, fetched, tried, rpc, loaded, cache, shown>>

\* line 237: a write raises (disk full) or json.dump does (a lone surrogate in
\* a text cannot be encoded); the with statement closes f and main ends
DumpFail ==
  /\ mpc = "dump"
  /\ mpc' = "failed"
  /\ UNCHANGED <<inputs, pc, url_idx, feed_entries, selected, seen_links,
                 exhausted, feed_idx, taken, cur, result, rounds, round_base, log>>
  /\ UNCHANGED <<topic_idx, articles, summary, daily_data, file, file0, opens,
                 calls, polled, fetched, tried, rpc, loaded, cache, shown>>

\* lines 236-239: json.dump returns and the with statement closes f
CloseWrite ==
  /\ mpc = "dump"
  /\ file' = Stored(daily_data)
  /\ mpc' = "done"
  /\ UNCHANGED <<inputs, pc, url_idx, feed_entries, selected, seen_links,
                 exhausted, feed_idx, taken, cur, result, rounds, round_base, log>>
  /\ UNCHANGED <<topic_idx, articles, summary, daily_data, file0, opens, calls,
                 polled, fetched, tried, rpc, loaded, cache, shown>>

\* ---- app.py: load_data --------------------------------------------------------
\* The dashboard runs beside main, and calls load_data each time its script
\* runs.  Until main opens the file it holds what it held at the start, so the
\* dashboard is followed from the end of the topic loop.
Reading == mpc \in {"open", "dump", "done", "failed"}

\* what a read of file f meets
Seen(f) == IF f.midchar THEN "garbled" ELSE IF f.complete THEN "whole" ELSE "part"

\* app.py line 75: st.cache_data answers from the cache; the body does not run
LoadCached ==
  /\ rpc = "idle"
  /\ Reading
  /\ cache.full
  /\ loaded' = [status |-> "returned", data |-> cache.data, saw |-> "nothing",
                late |-> (mpc = "done"), hit |-> TRUE]
  /\ rpc' = "done"
  /\ UNCHANGED <<inputs, pc, url_idx, feed_entries, selected, seen_links,
                 exhausted, feed_idx, taken, cur, result, rounds, round_base, log>>
  /\ UNCHANGED <<mpc, topic_idx, articles, summary, daily_data, file, file0,
                 opens, calls, polled, fetched, tried, cache, shown>>

\* app.py lines 77-78: the file does not exist
LoadMissing ==
  /\ rpc = "idle"
  /\ Reading
  /\ ~cache.full
  /\ ~file.exists
  /\ loaded' = [status |-> "returned", data |-> <<>>, saw |-> "nothing",
                late |-> (mpc = "done"), hit |-> FALSE]
  /\ cache' = [full |-> TRUE, data |-> <<>>]
  /\ rpc' = "done"
  /\ UNCHANGED <<inputs, pc, url_idx, feed_entries, selected, seen_links,
                 exhausted, feed_idx, taken, cur, result, rounds, round_base, log>>
  /\ UNCHANGED <<mpc, topic_idx, articles, summary, daily_data, file, file0,
                 opens, calls, polled, fetched, tried, shown>>

\* app.py line 77: the file exists
LoadExists ==
  /\ rpc = "idle"
  /\ Reading
  /\ ~cache.full
  /\ file.exists
  /\ loaded' = [NotLoaded EXCEPT !.late = (mpc = "done")]
  /\ rpc' = "open"
  /\ UNCHANGED <<inputs, pc, url_idx, feed_entries, selected, seen_links,
                 exhausted, feed_idx, taken, cur, result, rounds, round_base, log>>
  /\ UNCHANGED <<mpc, topic_idx, articles, summary, daily_data, file, file0,
                 opens, calls, polled, fetched, tried, cache, shown>>

\* app.py lines 79-83: json.load(f) reads the file and parses it.  Bytes that
\* end inside a character raise UnicodeDecodeError, which is neither a
\* JSONDecodeError nor an IOError; a document that ends early raises
\* JSONDecodeError, which returns {}.  What is returned is cached (line 75).
LoadRead ==
  /\ rpc = "open"
  /\ loaded' = [status |-> IF file.midchar THEN "raised" ELSE "returned",
                data |-> IF Seen(file) = "whole" THEN Load(file.items) ELSE <<>>,
                saw |-> Seen(file), late |-> loaded.late, hit |-> FALSE]
  /\ cache' = IF file.midchar THEN cache
              ELSE [full |-> TRUE,
                    data |-> IF Seen(file) = "whole" THEN Load(file.items) ELSE <<>>]
  /\ rpc' = "done"
  /\ UNCHANGED <<inputs, pc, url_idx, feed_entries, selected, seen_links,
                 exhausted, feed_idx, taken, cur, result, rounds, round_base, log>>
  /\ UNCHANGED <<mpc, topic_idx, articles, summary, daily_data, file, file0,
                 opens, calls, polled, fetched, tried, shown>>

\* app.py lines 79 and 82-83: open raises an IOError
LoadIOError ==
  /\ rpc = "open"
  /\ loaded' = [status |-> "returned", data |-> <<>>, saw |-> "nothing",
                late |-> loaded.late, hit |-> FALSE]
  /\ cache' = [full |-> TRUE, data |-> <<>>]
  /\ rpc' = "done"
  /\ UNCHANGED <<inputs, pc, url_idx, feed_entries, selected, seen_links,
                 exhausted, feed_idx, taken, cur, result, rounds, round_base, log>>
  /\ UNCHANGED <<mpc, topic_idx, articles, summary, daily_data, file, file0,
                 opens, calls, polled, fetched, tried, shown>>

\* app.py line 75: ttl=300, the cached value is dropped after 300 seconds
Expire ==
  /\ Reading
  /\ cache.full
  /\ cache' = NoCache
  /\ UNCHANGED <<inputs, pc, url_idx, feed_entries, selected, seen_links,
                 exhausted, feed_idx, taken, cur, result, rounds, round_base, log>>
  /\ UNCHANGED <<mpc, topic_idx, articles, summary, daily_data, file, file0,
                 opens, calls, polled, fetched, tried, rpc, loaded, shown>>

\* app.py line 85: the script of the dashboard runs again, `data` is unbound
Rerun ==
  /\ rpc \in {"done", "shown"}
  /\ rpc' = "idle"
  /\ loaded' = NotLoaded
  /\ shown' = NoShown
  /\ UNCHANGED <<inputs, pc, url_idx, feed_entries, selected, seen_links,
                 exhausted, feed_idx, taken, cur, result, rounds, round_base, log>>
  /\ UNCHANGED <<mpc, topic_idx, articles, summary, daily_data, file, file0,
                 opens, calls, polled, fetched, tried, cache>>

\* app.py line 109
available_topics(data) ==
  IF data # <<>> THEN SelectSeq(Keys(data), LAMBDA k : k # "_meta")
  ELSE <<"Tech", "Finance", "World News">>

\* app.py line 141
RECURSIVE total_articles(_)
total_articles(data) ==
  IF data = <<>> THEN 0
  ELSE (IF Head(data)[1] # "_meta"
          THEN (IF "articles" \in DOMAIN Head(data)[2]
                  THEN Len(Head(data)[2].articles) ELSE 0)
          ELSE 0) + total_articles(Tail(data))

\* ---- app.py: the source list --------------------------------------------------
\* the defaults of app.py lines 232-235, and the length of a snippet
Untitled == <<"Untitled">>

HashUrl == -1

UnknownSource == "Unknown source"

SnippetLen == 400

\* article.get(k, default)
ArticleGet(article, k, default) == IF k \in DOMAIN article THEN article[k] ELSE default

\* app.py lines 232-235: what the expander reads of one article
SourceRow(article) ==
  [title |-> ArticleGet(article, "title", Untitled),
   url |-> ArticleGet(article, "url", HashUrl),
   source |-> ArticleGet(article, "source", UnknownSource),
   snippet |-> Slice(ArticleGet(article, "text",
                                ArticleGet(article, "description", NoText)), SnippetLen)]

\* app.py line 228
TopicArticles(topic_data) ==
  IF "articles" \in DOMAIN topic_data THEN topic_data.articles ELSE <<>>

\* app.py lines 228-240: the rows of the expander, in the order of the list
SourceList(topic_data) ==
  [i \in 1..Len(TopicArticles(topic_data)) |-> SourceRow(TopicArticles(topic_data)[i])]

\* app.py lines 201-240: load_data has returned and the page of a topic the
\* store holds is rendered, with its source list
ShowSources ==
  /\ rpc = "done"
  /\ loaded.status = "returned"
  /\ \E t \in Range(available_topics(loaded.data)) :
       /\ HasKey(loaded.data, t)
       /\ shown' = [topic |-> t, rows |-> SourceList(Get(loaded.data, t))]
  /\ rpc' = "shown"
  /\ UNCHANGED <<inputs, pc, url_idx, feed_entries, selected, seen_links,
                 exhausted, feed_idx, taken, cur, result, rounds, round_base, log>>
  /\ UNCHANGED <<mpc, topic_idx, articles, summary, daily_data, file, file0,
                 opens, calls, polled, fetched, tried, loaded, cache>>

\* app.py lines 201-204: the store returned holds nothing for the topic, and
\* st.stop() ends the run of the script before the source list
ShowStop ==
  /\ rpc = "done"
  /\ loaded.status = "returned"
  /\ \E t \in Range(available_topics(loaded.data)) : ~HasKey(loaded.data, t)
  /\ rpc' = "idle"
  /\ loaded' = NotLoaded
  /\ UNCHANGED <<inputs, pc, url_idx, feed_entries, selected, seen_links,
                 exhausted, feed_idx, taken, cur, result, rounds, round_base, log>>
  /\ UNCHANGED <<mpc, topic_idx, articles, summary, daily_data, file, file0,
                 opens, calls, polled, fetched, tried, cache, shown>>

MainNext ==
  \/ CallFetch
  \/ PollRaise
  \/ PollEntries
  \/ PollEmpty
  \/ PollDone
  \/ WhileEnter
  \/ WhileExit
  \/ ForVisit
  \/ ForBreak
  \/ ForEnd
  \/ PopSkip
  \/ PopNew
  \/ ExtractOk
  \/ ExtractFail
  \/ SlotEnd
  \/ RemoveExhausted
  \/ Return
  \/ FetchReturn
  \/ SummaryEmpty
  \/ SummaryOk
  \/ SummaryFail
  \/ AssignDigest
  \/ AddMeta
  \/ OpenWrite
  \/ OpenFail
  \/ Flush
  \/ DumpFail
  \/ CloseWrite
  \/ LoadCached
  \/ LoadMissing
  \/ LoadExists
  \/ LoadRead
  \/ LoadIOError
  \/ ShowSources
  \/ ShowStop
  \/ Expire
  \/ Rerun

MainSpec == MainInit /\ [][MainNext]_vars

\* ---- the inputs, as the claims speak of them ------------------------------
\* the links of the entries feed u delivers (none if its poll raises)
FeedLinks(u) == feed[u].links

\* every link some polled entry carries
InputLinks == UNION {Range(FeedLinks(u)) : u \in DOMAIN feed} \ {NoLink}

\* number of polled entries carrying link l
Occurrences(l) ==
  Cardinality({<<u, i>> \in (DOMAIN feed) \X (1..MaxTotal + MaxRun) :
                 i <= Len(FeedLinks(u)) /\ FeedLinks(u)[i] = l})

NoRepeat(s) == Cardinality({s[i] : i \in 1..Len(s)}) = Len(s)

\* ---- C1 -------------------------------------------------------------------
\* C1 (cap): at every point of fetch_news len(selected) <= max_articles, and
\* the returned list has at most max_articles articles.
C1_Cap == Len(selected) <= max_articles /\ Len(result) <= max_articles

\* the cap cuts the selection short: it is reached with entries left unread
C1_Witness ==
  /\ pc = "done"
  /\ max_articles > 0
  /\ Len(result) = max_articles
  /\ feed_entries # <<>>

\* ---- C2 -------------------------------------------------------------------
\* C2 (uniqueness): no two articles of selected, nor of the returned list,
\* have the same link, whatever links repeat within a feed or across feeds.
C2_Unique == NoRepeat(LinksOf(selected)) /\ NoRepeat(LinksOf(result))

\* a returned link that one feed delivered twice and another feed delivered too
C2_Witness ==
  /\ pc = "done"
  /\ \E i \in 1..Len(result) :
       /\ \E u \in DOMAIN feed :
            Cardinality({k \in 1..Len(FeedLinks(u)) : FeedLinks(u)[k] = result[i].link}) >= 2
       /\ Cardinality({u \in DOMAIN feed : result[i].link \in Range(FeedLinks(u))}) >= 2

\* ---- C3 -------------------------------------------------------------------
\* the queues fetch_news starts from, in declared order (a failed poll gives
\* no entry)
Queues == [k \in 1..Len(rss_urls) |-> FeedLinks(rss_urls[k])]

RECURSIVE Concat(_)
Concat(qs) == IF qs = <<>> THEN <<>> ELSE Head(qs) \o Concat(Tail(qs))

NonEmpty(q) == q # <<>>

\* round after round, the next entry of each non-exhausted queue, in order
RECURSIVE Interleave(_)
Interleave(qs) ==
  LET live == SelectSeq(qs, NonEmpty) IN
    IF live = <<>> THEN <<>>
    ELSE [i \in 1..Len(live) |-> Head(live[i])]
           \o Interleave([i \in 1..Len(live) |-> Tail(live[i])])

AllDistinctAndExtractable ==
  /\ NoRepeat(Concat(Queues))
  /\ \A l \in Range(Concat(Queues)) : l # NoLink /\ l \in ok

ExampleAB ==
  /\ feed = <<[raises |-> FALSE, links |-> <<1, 2, 3>>],
              [raises |-> FALSE, links |-> <<4, 5, 6>>]>>
  /\ max_articles = 4

ExampleABC ==
  /\ feed = <<[raises |-> FALSE, links |-> <<1, 2, 3>>],
              [raises |-> FALSE, links |-> <<4, 5>>],
              [raises |-> TRUE, links |-> <<>>]>>
  /\ max_articles = 4

\* C3 (round-robin order): when all links are distinct and every extraction
\* succeeds, the returned links are the interleave of the feeds' entries,
\* round after round in declared feed order, cut at max_articles; the two
\* examples of the spec give [a1, b1, a2, b2].
C3_RoundRobinOrder ==
  pc = "done" =>
    /\ AllDistinctAndExtractable =>
         LinksOf(result) = Take(Interleave(Queues), max_articles)
    /\ ExampleAB => LinksOf(result) = <<1, 4, 2, 5>>
    /\ ExampleABC => LinksOf(result) = <<1, 4, 2, 5>>

\* three feeds of which one is exhausted after the first round, the other two
\* go on, and the cap cuts the last round short
C3_Witness ==
  /\ pc = "done"
  /\ AllDistinctAndExtractable
  /\ Len(rounds) >= 2
  /\ Cardinality(rounds[1]) = 3
  /\ Cardinality(rounds[2]) = 2
  /\ Len(result) = max_articles
  /\ feed_entries # <<>>

\* ---- C4 -------------------------------------------------------------------
Last(s) == s[Len(s)]

\* positions of the log where an article of source f was accepted
AcceptsOf(f) == {i \in 1..Len(log) : log[i].ev = "accept" /\ log[i].src = f}

\* the state right after an article is appended
JustAccepted == pc = "inner" /\ taken > 0 /\ log # <<>> /\ Last(log).ev = "accept"

\* the state right after a slot starts
JustVisited == pc = "inner" /\ log # <<>> /\ Last(log).ev = "visit"

\* C4 (fairness per round): in one round at most one article is accepted from
\* each feed; when a feed contributes again, a new round has started and every
\* other feed of the rotation has been visited in between; within a round the
\* feeds are visited once each, in declared order.
C4_FairRound ==
  /\ NoRepeat([i \in 1..(Len(selected) - round_base) |-> selected[round_base + i].source])
  /\ JustAccepted =>
       \A i \in AcceptsOf(Last(log).src) \ {Len(log)} :
         /\ \E k \in (i + 1)..(Len(log) - 1) : log[k].ev = "round"
         /\ \A g \in Last(rounds) \ {Last(log).src} :
              \E k \in (i + 1)..(Len(log) - 1) : (log[k].ev = "visit" /\ log[k].src = g)
  /\ JustVisited =>
       \A i \in 1..(Len(log) - 1) :
         (log[i].ev = "visit" /\ log[i].src >= Last(log).src)
           => \E k \in (i + 1)..(Len(log) - 1) : log[k].ev = "round"

\* a feed contributes its second article while two other feeds are in rotation
C4_Witness ==
  /\ JustAccepted
  /\ Cardinality(AcceptsOf(Last(log).src)) >= 2
  /\ Cardinality(Last(rounds)) >= 3

\* ---- C5 -------------------------------------------------------------------
\* number of returned articles that came from feed u
Contribution(u) == Cardinality({i \in 1..Len(result) : result[i].source = u})

\* rounds in which exactly one of u and v was in rotation
LoneRounds(u, v) ==
  Cardinality({r \in 1..Len(rounds) : (u \in rounds[r]) # (v \in rounds[r])})

Skew(u, v) ==
  IF Contribution(u) >= Contribution(v)
    THEN Contribution(u) - Contribution(v)
    ELSE Contribution(v) - Contribution(u)

\* C5 as stated: the skew between two feeds is at most the number of rounds
\* in which one of them was in rotation and the other was not.
C5_AsStated ==
  pc = "done" =>
    \A u, v \in DOMAIN feed : Skew(u, v) <= LoneRounds(u, v)

\* C5 (skew bound), amended: the skew between two feeds is at most one more
\* than the number of rounds in which one of them was in rotation and the
\* other was not.
C5_SkewBound ==
  pc = "done" =>
    \A u, v \in DOMAIN feed : Skew(u, v) <= LoneRounds(u, v) + 1

\* the amended bound is met, with a round in which only one of the two feeds
\* was in rotation, after duplicates or failed extractions
C5_Witness ==
  /\ pc = "done"
  /\ \E u, v \in DOMAIN feed :
       /\ LoneRounds(u, v) >= 1
       /\ Skew(u, v) = LoneRounds(u, v) + 1
  /\ \E i \in 1..Len(log) : log[i].ev \in {"skip", "fail"}

\* ---- C6 -------------------------------------------------------------------
\* the distinct links whose extraction succeeds
GoodLinks == InputLinks \cap ok

\* C6 (exhaustion): when fewer than max_articles distinct links are
\* extractable, every queue is drained and the returned list holds exactly one
\* article for each of them.
C6_Exhaustion ==
  (pc = "done" /\ Cardinality(GoodLinks) < max_articles) =>
    /\ feed_entries = <<>>
    /\ Range(LinksOf(result)) = GoodLinks
    /\ Len(result) = Cardinality(GoodLinks)

\* an extractable link delivered twice is returned once, from feeds that
\* also held a link whose extraction fails
C6_Witness ==
  /\ pc = "done"
  /\ Cardinality(GoodLinks) < max_articles
  /\ Len(result) >= 1
  /\ \E l \in GoodLinks : Occurrences(l) >= 2
  /\ InputLinks \ ok # {}

\* ---- C7 -------------------------------------------------------------------
\* positions of rss_urls whose poll raises or yields no entry
FailedPolls ==
  {k \in 1..Len(rss_urls) :
     feed[rss_urls[k]].raises \/ feed[rss_urls[k]].links = <<>>}

\* C7 (poll isolation): a feed whose poll raises or yields no entry is never
\* in rotation, fetch_news still returns, and the returned list equals the one
\* fetch_news returns for the feed list without that feed.
C7_PollIsolation ==
  /\ \A r \in 1..Len(rounds) : \A k \in FailedPolls : rss_urls[k] \notin rounds[r]
  /\ pc = "done" =>
       \A k \in FailedPolls :
         result = fetch_news(PopAt(rss_urls, k), feed, ok, page, max_articles)

\* the second of three feeds fails to poll and the other two both contribute
C7_Witness ==
  /\ pc = "done"
  /\ Len(rss_urls) = 3
  /\ FailedPolls = {2}
  /\ feed[2].raises
  /\ Contribution(1) >= 1
  /\ Contribution(3) >= 2

\* ---- C8 -------------------------------------------------------------------
RECURSIVE EntriesLeft(_)
EntriesLeft(fe) == IF fe = <<>> THEN 0 ELSE Len(Head(fe)) + EntriesLeft(Tail(fe))

\* steps that may still be taken before the next pop or the return
StepsToPop ==
  CASE pc = "done" -> 0
    [] pc = "return" -> 1
    [] pc = "while" -> 2
    [] pc = "remove" -> 3
    [] pc = "for" ->
         IF feed_idx <= Len(feed_entries) /\ Len(selected) < max_articles
           THEN 1 ELSE 4
    [] pc = "inner" -> IF SlotOpen THEN 0 ELSE 5
    [] pc = "extract" -> 6
    [] pc = "poll" -> 7 + Len(rss_urls) + 1 - url_idx

\* a bound on the steps fetch_news has left: every pop pays for the steps
\* that follow it up to the next pop
Variant ==
  StepsToPop + 7 * (IF pc = "poll" THEN TotalLinks(feed) + 1
                    ELSE EntriesLeft(feed_entries))

\* C8 (termination): fetch_news cannot stop before it returns, every step
\* lowers a non-negative bound on the steps left, and every round appends an
\* article to selected or removes an exhausted feed from the rotation.
C8_Termination ==
  /\ [](pc = "done" \/ ENABLED Next)
  /\ [][/\ Variant' < Variant
        /\ Variant' >= 0
        /\ (pc = "remove" /\ pc' = "while") =>
             \/ Len(selected') > round_base
             \/ Len(feed_entries') < Len(feed_entries)]_vars

\* after a round that appended an article, a round ends with nothing
\* appended and its exhausted feeds removed
C8_Witness ==
  /\ pc = "while"
  /\ Len(rounds) >= 2
  /\ selected # <<>>
  /\ Len(selected) = round_base
  /\ Len(feed_entries) < Cardinality(Last(rounds))

\* ---- C9 -------------------------------------------------------------------
\* the entry about to be popped is one line 102 rejects
PopsRejected ==
  /\ pc = "inner"
  /\ SlotOpen
  /\ \/ Head(feed_entries[feed_idx]).link = NoLink
     \/ Head(feed_entries[feed_idx]).link \in seen_links

\* the extraction about to be attempted fails
ExtractionFails == pc = "extract" /\ cur.link \notin ok

\* C9 (skips do not cost the turn): a step that discards a popped entry, as a
\* duplicate, for want of a link or on a failed extraction, leaves selected
\* and taken as they are and stays in the same slot, which goes on popping
\* while its queue has entries; a slot is left only with one article taken
\* or with its queue empty.
C9_SkipKeepsTurn ==
  [][/\ (PopsRejected \/ ExtractionFails) =>
          /\ selected' = selected
          /\ taken' = taken
          /\ feed_idx' = feed_idx
          /\ pc' = "inner"
          /\ feed_entries'[feed_idx] # <<>> => SlotOpen'
     /\ PopsRejected => feed_entries'[feed_idx] = Tail(feed_entries[feed_idx])
     /\ (pc = "inner" /\ pc' = "for") =>
          \/ taken = max_per_round
          \/ feed_entries[feed_idx] = <<>>]_vars

\* in one slot a failed extraction and a duplicate are skipped and the third
\* entry of the feed is accepted
C9_Witness ==
  /\ JustAccepted
  /\ Len(log) >= 4
  /\ log[Len(log) - 1].ev = "skip"
  /\ log[Len(log) - 1].link # NoLink
  /\ log[Len(log) - 2].ev = "fail"
  /\ log[Len(log) - 3].ev = "visit"

\* ---- C10 ------------------------------------------------------------------
\* links whose extraction has been attempted and has ended
Attempted == {log[i].link : i \in {j \in 1..Len(log) : log[j].ev \in {"accept", "fail"}}}

\* the link recorded at line 104 whose extraction has not ended yet
InFlight == IF pc = "extract" THEN {cur.link} ELSE {}

\* C10 as stated: outside an extraction, seen_links is exactly the set of
\* links of the articles in selected.
C10_AsStated ==
  pc # "extract" => seen_links = Range(LinksOf(selected))

\* C10 (dedup set content), amended: a link is recorded in seen_links before
\* its extraction is attempted and stays there if the extraction fails;
\* seen_links is exactly the set of links whose extraction was attempted, and
\* the links of the articles in selected are those of them that succeeded.
C10_SeenLinks ==
  /\ seen_links = Attempted \cup InFlight
  /\ Range(LinksOf(selected)) = (seen_links \cap ok) \ InFlight
  /\ NoLink \notin seen_links

\* after a failed extraction the link is in seen_links, next to an accepted one
C10_Witness ==
  /\ pc # "extract"
  /\ selected # <<>>
  /\ \E l \in seen_links : l \notin ok

\* the run and the function agree
RunIsFunction ==
  pc = "done" => result = fetch_news(rss_urls, feed, ok, page, max_articles)

\* ---- the store, as the claims speak of it -----------------------------------
\* what load_data returns from the file main found, and from the file main
\* means to leave
PriorData == IF file0.exists THEN Load(file0.items) ELSE <<>>

NewData == Load(Dump(daily_data))

\* load_data has run to its end
HasLoaded == rpc = "done"

\* ---- C11 ------------------------------------------------------------------
\* C11 (atomic persistence): whenever load_data runs beside main's write, it
\* observes the complete prior store or the complete new store, never a
\* partially written document.
C11_AtomicPersistence ==
  HasLoaded /\ ~loaded.hit /\ loaded.saw # "nothing" =>
    /\ loaded.saw = "whole"
    /\ loaded.status = "returned"
    /\ loaded.data = PriorData \/ loaded.data = NewData

\* ---- C12 ------------------------------------------------------------------
\* C12 (a failed write keeps the last good store): when the write fails, at
\* the open or part-way through serialization, main ends with the failure and
\* the file still holds the complete prior store, unchanged.
C12_KeepsLastGood == mpc = "failed" => file = file0

\* ---- C13 ------------------------------------------------------------------
Seconds(ps) == [i \in 1..Len(ps) |-> ps[i][2]]

\* the polls and the extractions of the call of fetch_news that is running
PollsNow == LET es == EventsOf(log, {"poll"}) IN [i \in 1..Len(es) |-> es[i].src]

TriesNow ==
  LET es == EventsOf(log, {"accept", "fail"}) IN [i \in 1..Len(es) |-> es[i].link]

\* fetch_news has returned for topic t
Fetched(t) == t < topic_idx \/ (t = topic_idx /\ mpc \in {"summary", "assign"})

\* C13 as stated: in one run of main no feed endpoint is polled more than
\* once and no link has its extraction attempted more than once.
C13_AsStated == NoRepeat(Seconds(polled)) /\ NoRepeat(Seconds(tried))

\* C13 (no retry), amended: in one run of main every endpoint is polled
\* exactly once for each topic that lists it, and a link has its extraction
\* attempted at most once for each topic.
C13_OncePerTopic ==
  /\ NoRepeat(polled) /\ NoRepeat(PollsNow)
  /\ NoRepeat(tried) /\ NoRepeat(TriesNow)
  /\ \A t \in 1..Len(TOPICS) :
       Fetched(t) =>
         \A u \in Range(TOPICS[t].urls) :
           \E i \in 1..Len(polled) : polled[i] = <<TOPICS[t].name, u>>

\* the run is over, an endpoint was polled for two topics and a link was
\* extracted for two topics
C13_Witness ==
  /\ mpc = "done"
  /\ \E i, j \in 1..Len(polled) : i # j /\ polled[i][2] = polled[j][2]
  /\ \E i, j \in 1..Len(tried) : i # j /\ tried[i][2] = tried[j][2]

\* ---- C14 ------------------------------------------------------------------
\* the calls of the chat service made for the topic of name n
CallsFor(n) == SelectSeq(calls, LAMBDA c : c.topic = n)

\* what generate_summary owes for a list of articles, given the calls made
SummaryFits(n, arts, s) ==
  IF arts = <<>> THEN s = NoArticlesSummary /\ CallsFor(n) = <<>>
  ELSE /\ Len(CallsFor(n)) = 1
       /\ CallsFor(n)[1].reply = "raised" => s = FailedSummary
       /\ CallsFor(n)[1].reply # "raised" => s = CallsFor(n)[1].reply

\* C14 (summary outcomes): for an empty list generate_summary returns the
\* no-articles sentence and does not call the service; otherwise it calls the
\* service exactly once and returns the answer verbatim, or the failure
\* sentence when the call fails.  No error reaches main: the topic's digest is
\* stored with that summary, and main leaves the loop only after the last topic.
C14_SummaryOutcomes ==
  /\ mpc = "assign" => SummaryFits(TOPICS[topic_idx].name, articles, summary)
  /\ \A t \in 1..Len(TOPICS) :
       t < topic_idx =>
         /\ HasKey(daily_data, TOPICS[t].name)
         /\ SummaryFits(TOPICS[t].name, Get(daily_data, TOPICS[t].name).articles,
                        Get(daily_data, TOPICS[t].name).summary)
  /\ mpc \in {"open", "dump", "done", "failed"} => topic_idx = Len(TOPICS) + 1

\* a run that met a topic without articles and a topic whose call failed
C14_Witness ==
  /\ mpc = "done"
  /\ \E t \in 1..Len(TOPICS) :
       /\ Get(daily_data, TOPICS[t].name).articles = <<>>
       /\ Get(daily_data, TOPICS[t].name).summary = NoArticlesSummary
  /\ \E t \in 1..Len(TOPICS) :
       /\ Get(daily_data, TOPICS[t].name).articles # <<>>
       /\ Get(daily_data, TOPICS[t].name).summary = FailedSummary
  /\ Len(calls) = 1

\* ---- C15 ------------------------------------------------------------------
KeySet(d) == {d[i][1] : i \in 1..Len(d)}

\* d holds one digest for every configured topic, and _meta
WholeStore(d) ==
  /\ KeySet(d) = TopicNames \cup {"_meta"}
  /\ Len(d) = Len(TOPICS) + 1
  /\ \A n \in TopicNames : DOMAIN Get(d, n) = {"summary", "articles"}
  /\ DOMAIN Get(d, "_meta") = {"generated_at"}

\* C15 (single complete write): main writes the store file once, only after
\* every topic has been processed, and whatever feeds, extractions or
\* summaries failed the written store holds one digest for every topic of
\* TOPICS and the member _meta, whose key is no topic's name.
C15_SingleCompleteWrite ==
  /\ opens <= 1
  /\ file # file0 => opens = 1
  /\ opens = 1 =>
       /\ topic_idx = Len(TOPICS) + 1
       /\ \A n \in TopicNames : HasKey(daily_data, n)
  /\ "_meta" \notin TopicNames
  /\ mpc = "done" =>
       /\ opens = 1
       /\ file.exists /\ file.complete
       /\ WholeStore(Load(file.items))

\* the store written over an earlier one by a run in which no topic had an
\* article
C15_Witness ==
  /\ mpc = "done"
  /\ file0.exists
  /\ file # file0
  /\ \A t \in 1..Len(TOPICS) : Get(Load(file.items), TOPICS[t].name).articles = <<>>

\* ---- C16 ------------------------------------------------------------------
WithoutMeta(d) == SelectSeq(d, LAMBDA it : it[1] # "_meta")

\* C16 (consumer tolerance): load_data returns the empty state, never an
\* error, when the file is missing or holds a malformed, for instance partly
\* written, document; the topics enumerated and the articles counted never
\* include the member _meta.
C16_ConsumerTolerance ==
  HasLoaded =>
    /\ loaded.status = "returned"
    /\ ~loaded.hit /\ loaded.saw # "whole" => loaded.data = <<>>
    /\ "_meta" \notin Range(available_topics(loaded.data))
    /\ total_articles(loaded.data) = total_articles(WithoutMeta(loaded.data))

\* ---- C17 ------------------------------------------------------------------
\* the text field of article a against the text extracted at its link
Truncated(a) ==
  /\ a.text.len <= MaxText
  /\ PageText(page, a.link).len > MaxText => a.text = [of |-> a.link, len |-> MaxText]
  /\ PageText(page, a.link).len <= MaxText => a.text = PageText(page, a.link)

\* C17 (truncation): the text of every article is at most 2000 characters: the
\* first 2000 characters of the extracted text when that is longer, the whole
\* extracted text (or the empty string) otherwise.
C17_Truncation ==
  /\ \A i \in 1..Len(selected) : Truncated(selected[i])
  /\ \A i \in 1..Len(result) : Truncated(result[i])

\* a returned list with a text that was cut, one that was kept whole and one
\* that is empty
C17_Witness ==
  /\ pc = "done"
  /\ \E i \in 1..Len(result) : page[result[i].link] > MaxText /\ result[i].text.len = MaxText
  /\ \E i \in 1..Len(result) : page[result[i].link] \in 1..MaxText
  /\ \E i \in 1..Len(result) : result[i].text = NoText

\* ---- C18 ------------------------------------------------------------------
\* data holds, for every topic, the list fetch_news returned for it
SameArticles(data) ==
  \A t \in 1..Len(TOPICS) :
    /\ HasKey(data, TOPICS[t].name)
    /\ Get(data, TOPICS[t].name).articles = fetched[t]

\* a call of load_data that began after main's write ended has returned
LoadedLate == HasLoaded /\ loaded.late /\ mpc = "done"

\* C18 as stated: after main has completed its write, load_data returns for
\* every topic the list of articles main wrote, field by field and in the
\* order fetch_news selected them.
C18_AsStated == LoadedLate => loaded.status = "returned" /\ SameArticles(loaded.data)

\* C18 (round trip), amended: after main has completed its write, a call of
\* load_data that reads the file (it is not answered from the cache of
\* st.cache_data, and its open does not fail) returns for every topic the list
\* of articles main wrote, field by field and in the order fetch_news selected
\* them.
C18_RoundTrip ==
  LoadedLate /\ ~loaded.hit /\ loaded.saw # "nothing" =>
    loaded.status = "returned" /\ SameArticles(loaded.data)

\* the file was read after the write, and a topic has two articles or more,
\* one of them with a text that was cut
C18_Witness ==
  /\ LoadedLate /\ ~loaded.hit /\ loaded.saw = "whole"
  /\ \E t \in 1..Len(TOPICS) :
       /\ Len(Get(loaded.data, TOPICS[t].name).articles) >= 2
       /\ \E i \in 1..Len(fetched[t]) : fetched[t][i].text.len = MaxText

\* ---- C19 ------------------------------------------------------------------
\* C19 as stated: the returned list is a function of the feed list, the
\* entry sequences and max_articles alone: whichever links extract, the
\* same list is returned.
C19_AsStated ==
  pc = "done" =>
    \A ok2 \in SUBSET InputLinks :
      result = fetch_news(rss_urls, feed, ok2, page, max_articles)

\* C19 (determinism), amended: the returned list, contents and order, is a
\* function of the feed list, the entry sequences, the outcome of each
\* extraction (whether the link extracts, and to what text) and max_articles:
\* every run on the same of these returns the same list.
C19_Determinism ==
  /\ RunIsFunction
  /\ pc = "return" =>
       Take(selected, max_articles) = fetch_news(rss_urls, feed, ok, page, max_articles)

\* a returned list that would have been another had every link extracted
C19_Witness ==
  /\ pc = "done"
  /\ result # <<>>
  /\ result # fetch_news(rss_urls, feed, InputLinks, page, max_articles)

\* ---- C20 ------------------------------------------------------------------
\* fetch_news is running for a topic
InCall == mpc = "fetch" /\ pc # "idle"

\* C20 (topic independence): every call of fetch_news starts with no queue,
\* and with an empty selected and an empty seen_links when the round-robin
\* starts, so what it returns for a topic is the function of that topic's own
\* feeds and extractions, whatever the topics before it polled, extracted and
\* selected.
C20_TopicIndependence ==
  /\ InCall /\ pc = "poll" /\ url_idx = 1 => feed_entries = <<>>
  /\ InCall /\ pc = "while" /\ rounds = <<>> => selected = <<>> /\ seen_links = {}
  /\ InCall /\ pc = "done" =>
       result = fetch_news(rss_urls, feed, ok, page, max_articles)

\* a link selected for a topic is selected again for a later one
C20_Witness ==
  /\ InCall /\ pc = "done"
  /\ topic_idx > 1
  /\ \E i \in 1..Len(result) :
       \E t \in 1..Len(fetched) : \E j \in 1..Len(fetched[t]) :
         fetched[t][j].link = result[i].link

\* ---- C21 ------------------------------------------------------------------
\* the articles of the store the rendered source list was made from
ShownArticles == TopicArticles(Get(loaded.data, shown.topic))

\* the source list of a topic of the persisted store is on the page
SourcesShown == rpc = "shown" /\ loaded.saw = "whole"

\* C21 (field agreement): for every article of the persisted store, the
\* dashboard's source list reads each field under the key the writer stored it
\* under: the title, the link, the source and the text shown for an article
\* are its persisted title, link, source and text (the text cut to a snippet).
C21_FieldAgreement ==
  SourcesShown =>
    /\ Len(shown.rows) = Len(ShownArticles)
    /\ \A i \in 1..Len(shown.rows) :
         /\ shown.rows[i].title = ShownArticles[i].title
         /\ shown.rows[i].url = ShownArticles[i].link
         /\ shown.rows[i].source = ShownArticles[i].source
         /\ shown.rows[i].snippet = Slice(ShownArticles[i].text, SnippetLen)

\* ---- C22 ------------------------------------------------------------------
\* the links whose extraction this call has attempted, in the order of the
\* attempts, the one under way included
Attempts == TriesNow \o (IF pc = "extract" THEN <<cur.link>> ELSE <<>>)

\* the entries this call popped and discarded without an attempt
Skipped == EventsOf(log, {"skip"})

\* C22 (one attempt per link): in one call of fetch_news extraction is
\* attempted at most once for each distinct link, whether the attempt
\* succeeded or failed; no attempt is made for an entry without a link; and an
\* entry with a link that is discarded without an attempt is one whose link
\* was attempted before.
C22_OneAttempt ==
  /\ LET as == Attempts IN NoRepeat(as) /\ NoLink \notin Range(as)
  /\ log # <<>> /\ log[Len(log)].ev = "skip" =>
       log[Len(log)].link = NoLink \/ log[Len(log)].link \in Attempted

\* the call has ended; an entry whose link had failed before and an entry
\* without a link were both popped and discarded
C22_Witness ==
  /\ pc = "done"
  /\ \E i \in 1..Len(Skipped) :
       Skipped[i].link # NoLink /\ Skipped[i].link \notin ok
  /\ \E i \in 1..Len(Skipped) : Skipped[i].link = NoLink

====
